---------------------------- MODULE Spec2Model ----------------------------
(***************************************************************************)
(* Model of the structured logger (out_of_sync_report/logger.py), the      *)
(* trace id generator (rmr_forecast/trace_utils.py) and the invocation     *)
(* driver (out_of_sync_report/out_of_sync_report.py).                      *)
(*                                                                         *)
(* Python strings whose characters matter (environment signals, level      *)
(* names) are sequences of one-character strings, so that lower(), upper(),*)
(* strip() and the `in` substring test are computed character by           *)
(* character.  Optional strings are records [some, val].                   *)
(***************************************************************************)
EXTENDS Integers, Sequences, FiniteSets, TLC

VARIABLES
    environ,            \* os.environ restricted to the four signals read
    level_arg,          \* the level argument of the last construction
    construct,          \* outcome of the last construction
    logger_level,       \* self.logger.level
    environment,        \* self.environment
    current_trace_id,   \* self.current_trace_id
    stored,             \* history: last set_trace_id value not since cleared
    last,               \* history: the last public call and how it ended
    record,             \* the last record written to the sink
    threads,            \* per thread: position and locals of a log call
    exc_info,           \* sys.exc_info(): the active exception chain
    handler,            \* lambda_handler: position and locals
    uuids               \* uuid4 values already drawn in this process

vars == <<environ, level_arg, construct, logger_level, environment,
          current_trace_id, stored, last, record, threads, exc_info,
          handler, uuids>>

-----------------------------------------------------------------------------
(* Python string primitives *)

Uppers == <<"A", "B", "C", "D", "E", "F", "G", "H", "I", "J", "K", "L", "M", "N", "O", "P", "Q", "R", "S", "T", "U", "V", "W", "X", "Y", "Z">>
Lowers == <<"a", "b", "c", "d", "e", "f", "g", "h", "i", "j", "k", "l", "m", "n", "o", "p", "q", "r", "s", "t", "u", "v", "w", "x", "y", "z">>
Whitespace == {" ", "\t", "\n"}

lower_char(c) ==
    IF \E i \in 1..Len(Uppers) : Uppers[i] = c
    THEN Lowers[CHOOSE i \in 1..Len(Uppers) : Uppers[i] = c]
    ELSE c

upper_char(c) ==
    IF \E i \in 1..Len(Lowers) : Lowers[i] = c
    THEN Uppers[CHOOSE i \in 1..Len(Lowers) : Lowers[i] = c]
    ELSE c

\* A lower() that leaves the string as it is.
str_lower_identity(s) == s

\* str.lower()
str_lower(s) == [i \in 1..Len(s) |-> lower_char(s[i])]

\* str.upper()
str_upper(s) == [i \in 1..Len(s) |-> upper_char(s[i])]

\* str.strip(): leading and trailing whitespace removed
str_strip(s) ==
    LET keep == {i \in 1..Len(s) : s[i] \notin Whitespace}
    IN  IF keep = {} THEN <<>>
        ELSE LET lo == CHOOSE i \in keep : \A j \in keep : i <= j
                 hi == CHOOSE i \in keep : \A j \in keep : j <= i
             IN  SubSeq(s, lo, hi)

\* sub in s
str_contains(sub, s) ==
    \E i \in 0..(Len(s) - Len(sub)) :
        \A j \in 1..Len(sub) : s[i + j] = sub[j]

\* Optional[str]
NoneStr == [some |-> FALSE, val |-> <<>>]
Some(s) == [some |-> TRUE, val |-> s]
\* truthiness of an Optional[str]
Truthy(o) == o.some /\ Len(o.val) > 0

-----------------------------------------------------------------------------
(* String literals of logger.py *)

k_lambda == <<"l", "a", "m", "b", "d", "a">>
k_prod == <<"p", "r", "o", "d">>
k_production == <<"p", "r", "o", "d", "u", "c", "t", "i", "o", "n">>
k_staging == <<"s", "t", "a", "g", "i", "n", "g">>
k_stage == <<"s", "t", "a", "g", "e">>
k_hotfix == <<"h", "o", "t", "f", "i", "x">>
k_hotfixes == <<"h", "o", "t", "f", "i", "x", "e", "s">>
k_development == <<"d", "e", "v", "e", "l", "o", "p", "m", "e", "n", "t">>

(* Values the four signals are given *)
in_production == <<"p", "r", "o", "d", "u", "c", "t", "i", "o", "n">>
in_PRODUCTION == <<"P", "R", "O", "D", "U", "C", "T", "I", "O", "N">>
in_STAGE == <<"S", "T", "A", "G", "E">>
in_stage == <<"s", "t", "a", "g", "e">>
in_Hotfixes == <<"H", "o", "t", "f", "i", "x", "e", "s">>
in_unknown_value == <<"u", "n", "k", "n", "o", "w", "n", "-", "v", "a", "l", "u", "e">>
in_Unknown_Value == <<"U", "n", "k", "n", "o", "w", "n", "-", "V", "a", "l", "u", "e">>
in_Staging_padded == <<" ", "S", "t", "a", "g", "i", "n", "g", " ">>
in_blank == <<" ">>
in_lambda_prod == <<"m", "y", "-", "l", "a", "m", "b", "d", "a", "-", "p", "r", "o", "d">>
in_Lambda_STAGING_Prod == <<"L", "a", "m", "b", "d", "a", "-", "S", "T", "A", "G", "I", "N", "G", "-", "P", "r", "o", "d">>
in_lambda_stage == <<"l", "a", "m", "b", "d", "a", "-", "S", "t", "a", "g", "e">>
in_LAMBDA_hotfix == <<"L", "A", "M", "B", "D", "A", "-", "h", "o", "t", "f", "i", "x">>
in_lambda_other == <<"l", "a", "m", "b", "d", "a", "-", "x">>

SignalStrings ==
    { <<>>, in_production, in_PRODUCTION, in_STAGE, in_stage, in_Hotfixes,
      in_unknown_value, in_Unknown_Value, in_Staging_padded, in_blank,
      in_lambda_prod, in_Lambda_STAGING_Prod, in_lambda_stage,
      in_LAMBDA_hotfix, in_lambda_other }

\* what os.getenv can return for one signal: None (unset) or a string
SignalValues == {NoneStr} \cup {Some(s) : s \in SignalStrings}

\* level names of the logging module and other level arguments
lv_DEBUG == <<"D", "E", "B", "U", "G">>
lv_INFO == <<"I", "N", "F", "O">>
lv_WARNING == <<"W", "A", "R", "N", "I", "N", "G">>
lv_ERROR == <<"E", "R", "R", "O", "R">>
lv_CRITICAL == <<"C", "R", "I", "T", "I", "C", "A", "L">>
lv_WARN == <<"W", "A", "R", "N">>
lv_FATAL == <<"F", "A", "T", "A", "L">>
lv_NOTSET == <<"N", "O", "T", "S", "E", "T">>
lv_BASIC_FORMAT == <<"B", "A", "S", "I", "C", "_", "F", "O", "R", "M", "A", "T">>
arg_info == <<"i", "n", "f", "o">>
arg_Debug == <<"D", "e", "b", "u", "g">>
arg_TRACE == <<"T", "R", "A", "C", "E">>
arg_verbose == <<"v", "e", "r", "b", "o", "s", "e">>
arg_notset == <<"n", "o", "t", "s", "e", "t">>
arg_warn == <<"w", "a", "r", "n">>

LevelArgs ==
    { lv_DEBUG, lv_INFO, lv_WARNING, lv_ERROR, lv_CRITICAL, lv_WARN, lv_FATAL,
      lv_NOTSET, lv_BASIC_FORMAT, arg_info, arg_Debug, arg_TRACE, arg_verbose,
      arg_notset, arg_warn, <<>> }

-----------------------------------------------------------------------------
(* EnvironmentLogger: construction and environment detection *)

None == "<None>"

\* the variables os.getenv is asked for
EnvNames == {"ENVIRONMENT", "ENV", "STAGE", "AWS_LAMBDA_FUNCTION_NAME"}

\* ENV_MAPPING: the keys are compared character by character
ENV_MAPPING ==
    [key \in {k_development, k_staging, k_hotfixes, k_production} |->
        CASE key = k_development -> "development"
          [] key = k_staging     -> "staging"
          [] key = k_hotfixes    -> "hotfixes"
          [] key = k_production  -> "production"]

\* ENV_MAPPING.get(key, default)
mapping_get(key, default) ==
    IF key \in DOMAIN ENV_MAPPING THEN ENV_MAPPING[key] ELSE default

\* env_sources: the four signals in priority order, then the fallback
env_sources(env) ==
    <<env["ENVIRONMENT"], env["ENV"], env["STAGE"],
      env["AWS_LAMBDA_FUNCTION_NAME"], Some(k_development)>>

\* The Lambda-name rules with the staging rule tried before the prod rule.
lambda_rules_staging_first(env_var) ==
    IF str_contains(k_staging, str_lower(env_var)) \/ str_contains(k_stage, str_lower(env_var))
    THEN "staging"
    ELSE IF str_contains(k_prod, str_lower(env_var)) \/ str_contains(k_production, str_lower(env_var))
    THEN "production"
    ELSE IF str_contains(k_hotfix, str_lower(env_var))
    THEN "hotfixes"
    ELSE "development"

\* the if/elif chain taken when 'lambda' is in the value
lambda_rules(env_var) ==
    IF str_contains(k_prod, str_lower(env_var)) \/ str_contains(k_production, str_lower(env_var))
    THEN "production"
    ELSE IF str_contains(k_staging, str_lower(env_var)) \/ str_contains(k_stage, str_lower(env_var))
    THEN "staging"
    ELSE IF str_contains(k_hotfix, str_lower(env_var))
    THEN "hotfixes"
    ELSE "development"

\* the body of `if env_var:` for one truthy source
classify(env_var) ==
    IF str_contains(k_lambda, str_lower(env_var))
    THEN lambda_rules(env_var)
    ELSE mapping_get(str_strip(str_lower(env_var)), "development")

\* the for loop over env_sources from position i on, and the final return
RECURSIVE detect_loop(_, _)
detect_loop(sources, i) ==
    IF i > Len(sources) THEN "development"
    ELSE IF Truthy(sources[i]) THEN classify(sources[i].val)
    ELSE detect_loop(sources, i + 1)

detect_environment(env) == detect_loop(env_sources(env), 1)

\* The names of the logging module that an upper-cased level can hit, with the
\* kind of object each is bound to.
logging_attrs ==
    [name \in {lv_DEBUG, lv_INFO, lv_WARNING, lv_ERROR, lv_CRITICAL, lv_WARN,
               lv_FATAL, lv_NOTSET, lv_BASIC_FORMAT} |->
        CASE name = lv_DEBUG        -> [int |-> TRUE,  value |-> 10]
          [] name = lv_INFO         -> [int |-> TRUE,  value |-> 20]
          [] name = lv_WARNING      -> [int |-> TRUE,  value |-> 30]
          [] name = lv_WARN         -> [int |-> TRUE,  value |-> 30]
          [] name = lv_ERROR        -> [int |-> TRUE,  value |-> 40]
          [] name = lv_CRITICAL     -> [int |-> TRUE,  value |-> 50]
          [] name = lv_FATAL        -> [int |-> TRUE,  value |-> 50]
          [] name = lv_NOTSET       -> [int |-> TRUE,  value |-> 0]
          [] name = lv_BASIC_FORMAT -> [int |-> FALSE, value |-> 0]]

\* self.logger.setLevel(getattr(logging, level.upper())): how it ends
set_level_outcome(level) ==
    LET name == str_upper(level)
    IN  IF name \notin DOMAIN logging_attrs THEN "AttributeError"
        ELSE IF ~logging_attrs[name].int THEN "ValueError"
        ELSE "ok"

logVars == <<current_trace_id, stored, last, record>>
otherVars == <<threads, exc_info, handler, uuids>>

\* EnvironmentLogger.__init__(logger_name, level)
EnvironmentLogger_init(level) ==
    /\ level_arg' = Some(level)
    /\ construct' = set_level_outcome(level)
    /\ IF set_level_outcome(level) = "ok"
       THEN /\ logger_level' = logging_attrs[str_upper(level)].value
            /\ environment' = detect_environment(environ)
            /\ current_trace_id' = None
            /\ stored' = None
       ELSE UNCHANGED <<logger_level, environment, current_trace_id, stored>>
    /\ UNCHANGED <<environ, last, record, otherVars>>

\* default_logger = EnvironmentLogger('RMRForecast'): level defaults to 'INFO'
DefaultLogger ==
    /\ construct = "none"
    /\ EnvironmentLogger_init(lv_INFO)

\* get_logger(name, level)
get_logger(level) == EnvironmentLogger_init(level)

GetLogger == \E level \in LevelArgs : get_logger(level)

-----------------------------------------------------------------------------
(* Exceptions and CustomFormatter.format *)

MaxChain == 3       \* longest __cause__ chain raised
MaxFrames == 3      \* deepest stack of one exception
TracebackLimit == 10

ExcKinds ==
    { [type |-> "ValueError",   message |-> "bad value"],
      [type |-> "ValueError",   message |-> "no token"],
      [type |-> "RuntimeError", message |-> "failed"] }

\* one raised exception: its class, str() and the frames of its traceback
ExcObjects ==
    { [type |-> k.type, message |-> k.message, frames |-> f] :
        k \in ExcKinds, f \in 1..MaxFrames }

\* chain[1] is the exception being handled, chain[i+1] is chain[i].__cause__
Chains == UNION { [1..n -> ExcObjects] : n \in 1..MaxChain }

\* sys.exc_info() outside a handler
NoException == [chain |-> <<>>, frame_lines |-> 1]

\* getattr(chain[i], '__cause__', None); 0 stands for None
cause_of(chain, i) == IF i < Len(chain) THEN i + 1 ELSE 0

\* A walk that follows at most one __cause__ link.
root_exc_one_step(chain, i) ==
    IF i # 0 /\ cause_of(chain, i) # 0 THEN cause_of(chain, i) ELSE i

\* while root_exc is not None and root_exc.__cause__: root_exc = root_exc.__cause__
RECURSIVE root_exc(_, _)
root_exc(chain, i) ==
    IF i # 0 /\ cause_of(chain, i) # 0
    THEN root_exc(chain, cause_of(chain, i))
    ELSE i

BlankLine == <<0, "", 0>>

\* the list elements traceback.format_exception yields for chain[i] alone
own_entries(ei, i) ==
    <<  << <<i, "Traceback (most recent call last):", 0>> >>  >>
    \o [f \in 1..ei.chain[i].frames |->
            IF ei.frame_lines = 1
            THEN << <<i, "File", f>> >>
            ELSE << <<i, "File", f>>, <<i, "source", f>> >>]
    \o <<  << <<i, ei.chain[i].type, 0>> >>  >>

\* traceback.format_exception(exc_type, exc_value, exc_tb): the cause chain
\* first, each part followed by the "direct cause" element
RECURSIVE format_exception(_, _)
format_exception(ei, i) ==
    IF cause_of(ei.chain, i) # 0
    THEN format_exception(ei, cause_of(ei.chain, i))
         \o << <<BlankLine, <<i, "The above exception was the direct cause of the following exception:", 0>>, BlankLine>> >>
         \o own_entries(ei, i)
    ELSE own_entries(ei, i)

\* tb_lines[-n:]
last_elements(seq, n) ==
    IF Len(seq) <= n THEN seq ELSE SubSeq(seq, Len(seq) - n + 1, Len(seq))

\* ''.join(entries), as the sequence of its lines
RECURSIVE join_lines(_)
join_lines(entries) ==
    IF entries = <<>> THEN <<>>
    ELSE Head(entries) \o join_lines(Tail(entries))

\* .strip() of a text given as lines: blank lines at both ends go
strip_lines(lines) ==
    LET keep == {i \in 1..Len(lines) : lines[i] # BlankLine}
    IN  IF keep = {} THEN <<>>
        ELSE LET lo == CHOOSE i \in keep : \A j \in keep : i <= j
                 hi == CHOOSE i \in keep : \A j \in keep : j <= i
             IN  SubSeq(lines, lo, hi)

\* tb_str
tb_str(ei) ==
    IF ei.chain = <<>> THEN <<>>
    ELSE strip_lines(join_lines(last_elements(format_exception(ei, 1), TracebackLimit)))

\* the keys added under `if record.exc_info:`
exception_fields(ei) ==
    IF ei.chain = <<>>
    THEN [exception_type |-> None, exception_message |-> None,
          root_cause_type |-> None, root_cause_message |-> None,
          traceback |-> <<>>]
    ELSE [exception_type |-> ei.chain[1].type,
          exception_message |-> ei.chain[1].message,
          root_cause_type |-> ei.chain[root_exc(ei.chain, 1)].type,
          root_cause_message |-> ei.chain[root_exc(ei.chain, 1)].message,
          traceback |-> tb_str(ei)]

NoExcFields ==
    [exception_type |-> None, exception_message |-> None,
     root_cause_type |-> None, root_cause_message |-> None, traceback |-> <<>>]

\* CustomFormatter.format(record): cur is the logger's current_trace_id when
\* the handler formats; own is FALSE when the record's logger_instance is
\* not the EnvironmentLogger that made the call
format(levelname, cur, own, with_exc, ei) ==
    [emitted |-> TRUE,
     level |-> levelname,
     environment |-> IF own THEN environment ELSE "unknown",
     trace_id |-> IF own THEN cur ELSE None,
     exc |-> with_exc,
     fields |-> IF with_exc THEN exception_fields(ei) ELSE NoExcFields]

NoRecord ==
    [emitted |-> FALSE, level |-> "", environment |-> "", trace_id |-> None,
     exc |-> FALSE, fields |-> NoExcFields]

-----------------------------------------------------------------------------
(* EnvironmentLogger: trace context and log calls *)

TraceIds == {"", "X", "Y"}
TraceIdArgs == {None} \cup TraceIds

\* keyword context fields passed as **kwargs
FieldSets ==
    { {}, {"user"}, {"module"}, {"message"}, {"level"}, {"logger_instance"},
      {"user", "module"} }

\* attributes of a LogRecord that `extra` may not overwrite (Logger.makeRecord)
RecordAttrs ==
    { "name", "msg", "args", "levelname", "levelno", "pathname", "filename",
      "module", "exc_info", "exc_text", "stack_info", "lineno", "funcName",
      "created", "msecs", "relativeCreated", "thread", "threadName",
      "processName", "process", "message", "asctime" }

level_no(levelname) ==
    CASE levelname = "DEBUG"    -> 10
      [] levelname = "INFO"     -> 20
      [] levelname = "WARNING"  -> 30
      [] levelname = "ERROR"    -> 40
      [] levelname = "CRITICAL" -> 50

\* Logger.isEnabledFor: a logger left at NOTSET takes the root logger's
\* level, which the logging module sets to WARNING
is_enabled(levelname) ==
    level_no(levelname) >=
        (IF logger_level = 0 THEN level_no("WARNING") ELSE logger_level)

\* trace_id or self.current_trace_id
effective_trace_id(trace_id) ==
    IF trace_id # None /\ trace_id # "" THEN trace_id ELSE current_trace_id

\* self.logger.<level>(message, extra={'logger_instance': self, **kwargs}):
\* how the call ends
emit_outcome(levelname, fields) ==
    IF is_enabled(levelname) /\ fields \cap RecordAttrs # {}
    THEN "KeyError"
    ELSE "returned"

\* the statements of _log_with_context / exception from the save of
\* old_trace_id on; the restore is reached only when the emit returns
log_body(op, levelname, trace_id, fields, with_exc) ==
    LET effective == effective_trace_id(trace_id)
        old_trace_id == current_trace_id
        outcome == emit_outcome(levelname, fields)
    IN  /\ record' = IF outcome = "returned" /\ is_enabled(levelname)
                     THEN format(levelname, effective,
                                 "logger_instance" \notin fields, with_exc, exc_info)
                     ELSE NoRecord
        /\ current_trace_id' = IF outcome = "returned" THEN old_trace_id ELSE effective
        /\ last' = [op |-> op, trace_id |-> trace_id, fields |-> fields,
                    outcome |-> outcome, before |-> current_trace_id]

\* a call whose keyword arguments cannot be bound to the signature
type_error(op, trace_id, fields) ==
    /\ record' = NoRecord
    /\ last' = [op |-> op, trace_id |-> trace_id, fields |-> fields,
                outcome |-> "TypeError", before |-> current_trace_id]
    /\ UNCHANGED current_trace_id

logFrame == <<environ, level_arg, construct, logger_level, environment, stored,
              threads, exc_info, handler, uuids>>

\* _log_with_context(level, message, trace_id, **kwargs)
log_with_context(op, levelname, trace_id, fields) ==
    IF "level" \in fields
    THEN type_error(op, trace_id, fields)
    ELSE log_body(op, levelname, trace_id, fields, FALSE)

\* debug/info/warning/error/critical(message, trace_id, **kwargs)
leveled(op, levelname, trace_id, fields) ==
    IF "message" \in fields
    THEN type_error(op, trace_id, fields)
    ELSE log_with_context(op, levelname, trace_id, fields)

\* exception(message, trace_id, **kwargs)
exception(trace_id, fields) ==
    IF "message" \in fields
    THEN type_error("exception", trace_id, fields)
    ELSE log_body("exception", "ERROR", trace_id, fields, TRUE)

\* set_trace_id(trace_id)
set_trace_id(trace_id) ==
    /\ current_trace_id' = trace_id
    /\ stored' = trace_id
    /\ last' = [op |-> "set_trace_id", trace_id |-> trace_id, fields |-> {},
                outcome |-> "returned", before |-> current_trace_id]
    /\ record' = NoRecord

\* clear_trace_id()
clear_trace_id ==
    /\ current_trace_id' = None
    /\ stored' = None
    /\ last' = [op |-> "clear_trace_id", trace_id |-> None, fields |-> {},
                outcome |-> "returned", before |-> current_trace_id]
    /\ record' = NoRecord

ctxFrame == <<environ, level_arg, construct, logger_level, environment,
              threads, exc_info, handler, uuids>>

SetTraceId == (\E t \in TraceIds : set_trace_id(t)) /\ UNCHANGED ctxFrame
ClearTraceId == clear_trace_id /\ UNCHANGED ctxFrame
Debug == (\E t \in TraceIdArgs, f \in FieldSets : leveled("debug", "DEBUG", t, f)) /\ UNCHANGED logFrame
Info == (\E t \in TraceIdArgs, f \in FieldSets : leveled("info", "INFO", t, f)) /\ UNCHANGED logFrame
Warning == (\E t \in TraceIdArgs, f \in FieldSets : leveled("warning", "WARNING", t, f)) /\ UNCHANGED logFrame
Error == (\E t \in TraceIdArgs, f \in FieldSets : leveled("error", "ERROR", t, f)) /\ UNCHANGED logFrame
Critical == (\E t \in TraceIdArgs, f \in FieldSets : leveled("critical", "CRITICAL", t, f)) /\ UNCHANGED logFrame
Exception == (\E t \in TraceIdArgs, f \in FieldSets : exception(t, f)) /\ UNCHANGED logFrame

LogOps == {"debug", "info", "warning", "error", "critical", "exception"}

\* the severity each public method logs at
str_level(op) ==
    CASE op = "debug"     -> "DEBUG"
      [] op = "info"      -> "INFO"
      [] op = "warning"   -> "WARNING"
      [] op = "error"     -> "ERROR"
      [] op = "critical"  -> "CRITICAL"
      [] op = "exception" -> "ERROR"

NoCall == [op |-> "none", trace_id |-> None, fields |-> {},
           outcome |-> "none", before |-> None]
NoThreads == <<>>
NoHandler == [pc |-> "idle", trace_id |-> None, invocations |-> 0,
              secret_name |-> TRUE, statusCode |-> 0]
NoEnviron == [n \in EnvNames |-> NoneStr]

\* Before any logger exists: the stdlib logger has level NOTSET (0)
InitUnconstructed ==
    /\ level_arg = NoneStr
    /\ construct = "none"
    /\ logger_level = 0
    /\ environment = "unset"
    /\ current_trace_id = None
    /\ stored = None
    /\ last = NoCall
    /\ record = NoRecord
    /\ threads = NoThreads
    /\ exc_info = NoException
    /\ handler = NoHandler
    /\ uuids = {}

\* The state get_logger(name, level) leaves, for the levels it accepts
InitConstructed(levels) ==
    /\ environ = NoEnviron
    /\ level_arg \in {Some(l) : l \in {x \in levels : set_level_outcome(x) = "ok"}}
    /\ construct = "ok"
    /\ logger_level = logging_attrs[str_upper(level_arg.val)].value
    /\ environment = detect_environment(environ)
    /\ current_trace_id = None
    /\ stored = None
    /\ last = NoCall
    /\ record = NoRecord
    /\ threads = NoThreads
    /\ uuids = {}

\* Every assignment of the four signals
InitEnv ==
    /\ environ \in [EnvNames -> SignalValues]
    /\ InitUnconstructed

NextEnv == DefaultLogger

SpecEnv == InitEnv /\ [][NextEnv]_vars

\* One signal set, every level argument
InitLevel ==
    /\ environ \in {[n \in EnvNames |-> IF n = "ENVIRONMENT" THEN v ELSE NoneStr] : v \in SignalValues}
    /\ InitUnconstructed

NextLevel == GetLogger

SpecLevel == InitLevel /\ [][NextLevel]_vars

\* A constructed logger used from one thread, inside or outside a handler
SimpleChain == <<[type |-> "ValueError", message |-> "bad value", frames |-> 1]>>

LoggerLevels == {lv_DEBUG, lv_INFO, lv_WARNING, lv_ERROR, lv_CRITICAL, lv_NOTSET}

InitLogger ==
    /\ InitConstructed(LoggerLevels)
    /\ handler = NoHandler
    /\ exc_info \in {NoException, [chain |-> SimpleChain, frame_lines |-> 1]}

NextLogger ==
    \/ SetTraceId
    \/ ClearTraceId
    \/ Debug
    \/ Info
    \/ Warning
    \/ Error
    \/ Critical
    \/ Exception

SpecLogger == InitLogger /\ [][NextLogger]_vars

-----------------------------------------------------------------------------
(* Logging inside an exception handler *)

InitExc ==
    /\ InitConstructed({lv_INFO})
    /\ handler = NoHandler
    /\ exc_info \in {[chain |-> c, frame_lines |-> n] : c \in Chains, n \in 1..2}

\* except ...: logger.exception("failed")
ExceptionInHandler ==
    /\ exc_info.chain # <<>>
    /\ exception(None, {})
    /\ UNCHANGED logFrame

\* except ...: logger.error("failed")
ErrorInHandler ==
    /\ exc_info.chain # <<>>
    /\ leveled("error", "ERROR", None, {})
    /\ UNCHANGED logFrame

\* the except block ends: no exception is active any more
HandlerExit ==
    /\ exc_info.chain # <<>>
    /\ exc_info' = NoException
    /\ UNCHANGED <<environ, level_arg, construct, logger_level, environment,
                   current_trace_id, stored, last, record, threads, handler, uuids>>

\* logger.exception("failed") with no exception being handled
ExceptionOutsideHandler ==
    /\ exc_info.chain = <<>>
    /\ exception(None, {})
    /\ UNCHANGED logFrame

NextExc ==
    \/ ExceptionInHandler
    \/ ErrorInHandler
    \/ HandlerExit
    \/ ExceptionOutsideHandler

SpecExc == InitExc /\ [][NextExc]_vars

-----------------------------------------------------------------------------
(* Log calls from several threads on one EnvironmentLogger *)

NumThreads == 2           \* threads sharing the logger
MaxCallsPerThread == 2    \* log calls each thread makes

Threads == 1..NumThreads

\* the explicit trace_id thread t passes to its calls
thread_trace_id(t) == <<"T1", "T2", "T3", "T4">>[t]

IdleThread == [pc |-> "idle", effective_trace_id |-> None, old_trace_id |-> None,
               emitted |-> None, calls |-> 0]

InitConc ==
    /\ InitConstructed({lv_INFO})
    /\ handler = NoHandler
    /\ exc_info = NoException

\* before the threads start: set_trace_id on the shared logger, then spawn
Spawn ==
    /\ threads = NoThreads
    /\ \E t \in {None, "X"} :
        /\ current_trace_id' = t
        /\ stored' = t
    /\ threads' = [t \in Threads |-> IdleThread]
    /\ UNCHANGED <<environ, level_arg, construct, logger_level, environment,
                   last, record, exc_info, handler, uuids>>

concFrame == <<environ, level_arg, construct, logger_level, environment, stored,
               last, exc_info, handler, uuids>>

\* effective_trace_id = trace_id or self.current_trace_id
ThreadCompute(t) ==
    /\ threads # NoThreads
    /\ threads[t].pc = "idle"
    /\ threads[t].calls < MaxCallsPerThread
    /\ threads' = [threads EXCEPT ![t].pc = "computed",
                       ![t].effective_trace_id = effective_trace_id(thread_trace_id(t)),
                       ![t].calls = @ + 1]
    /\ UNCHANGED <<current_trace_id, record, concFrame>>

\* old_trace_id = self.current_trace_id
ThreadSave(t) ==
    /\ threads # NoThreads
    /\ threads[t].pc = "computed"
    /\ threads' = [threads EXCEPT ![t].pc = "saved",
                                  ![t].old_trace_id = current_trace_id]
    /\ UNCHANGED <<current_trace_id, record, concFrame>>

\* self.current_trace_id = effective_trace_id
ThreadSet(t) ==
    /\ threads # NoThreads
    /\ threads[t].pc = "saved"
    /\ current_trace_id' = threads[t].effective_trace_id
    /\ threads' = [threads EXCEPT ![t].pc = "set"]
    /\ UNCHANGED <<record, concFrame>>

\* self.logger.info(message, extra=extra): the handler formats the record
\* under its lock, reading the logger's current_trace_id at that moment
ThreadEmit(t) ==
    /\ threads # NoThreads
    /\ threads[t].pc = "set"
    /\ record' = format("INFO", current_trace_id, TRUE, FALSE, exc_info)
    /\ threads' = [threads EXCEPT ![t].pc = "emitted",
                                  ![t].emitted = current_trace_id]
    /\ UNCHANGED <<current_trace_id, concFrame>>

\* self.current_trace_id = old_trace_id
ThreadRestore(t) ==
    /\ threads # NoThreads
    /\ threads[t].pc = "emitted"
    /\ current_trace_id' = threads[t].old_trace_id
    /\ threads' = [threads EXCEPT ![t].pc = "idle"]
    /\ UNCHANGED <<record, concFrame>>

NextConc ==
    \/ Spawn
    \/ \E t \in Threads : ThreadCompute(t)
    \/ \E t \in Threads : ThreadSave(t)
    \/ \E t \in Threads : ThreadSet(t)
    \/ \E t \in Threads : ThreadEmit(t)
    \/ \E t \in Threads : ThreadRestore(t)

SpecConc == InitConc /\ [][NextConc]_vars

-----------------------------------------------------------------------------
(* lambda_handler and setup_trace_id *)

MaxInvocations == 3    \* invocations served by one process

\* trace ids setup_trace_id can build in this process: one pid, one
\* hostname, the zero suffix, and a different uuid4 in each
TraceIdPool ==
    { "4711@host/0b1f-0000000000000000", "4711@host/5c2e-0000000000000000",
      "4711@host/93a7-0000000000000000", "4711@host/d4e8-0000000000000000",
      "4711@host/f60c-0000000000000000" }

InitLambda ==
    /\ InitConstructed({lv_INFO})
    /\ exc_info = NoException
    /\ handler \in {[NoHandler EXCEPT !.secret_name = s] : s \in BOOLEAN}

lambdaFrame == <<environ, level_arg, construct, logger_level, environment,
                 threads>>

Goto(pc) == handler' = [handler EXCEPT !.pc = pc]

\* an exception raised by a step of the try block
Raised == [chain |-> <<[type |-> "RuntimeError", message |-> "failed", frames |-> 1]>>,
           frame_lines |-> 2]

\* trace_id = setup_trace_id(logger): a uuid4 not drawn before
SetupTraceId ==
    /\ handler.pc = "idle"
    /\ handler.invocations < MaxInvocations
    /\ \E id \in TraceIdPool \ uuids :
        /\ uuids' = uuids \cup {id}
        /\ set_trace_id(id)
        /\ handler' = [handler EXCEPT !.pc = "try", !.trace_id = id,
                                      !.invocations = @ + 1]
    /\ UNCHANGED <<lambdaFrame, exc_info>>

\* logger.info("Lambda execution started")
LogStarted ==
    /\ handler.pc = "try"
    /\ leveled("info", "INFO", None, {})
    /\ Goto("get_secrets")
    /\ UNCHANGED <<lambdaFrame, stored, exc_info, uuids>>

\* if not SECRET_NAME: raise; get_secrets(SECRET_NAME) and the key reads
GetSecrets ==
    /\ handler.pc = "get_secrets"
    /\ \/ /\ handler.secret_name
          /\ Goto("log_credentials")
          /\ UNCHANGED exc_info
       \/ /\ exc_info' = Raised
          /\ Goto("except")
    /\ UNCHANGED <<lambdaFrame, logVars, uuids>>

\* logger.info(f"Retrieved credentials for user: {username}")
LogCredentials ==
    /\ handler.pc = "log_credentials"
    /\ leveled("info", "INFO", None, {})
    /\ Goto("get_token")
    /\ UNCHANGED <<lambdaFrame, stored, exc_info, uuids>>

\* token = get_token(...)
GetToken ==
    /\ handler.pc = "get_token"
    /\ \/ /\ Goto("log_token")
          /\ UNCHANGED exc_info
       \/ /\ exc_info' = Raised
          /\ Goto("except")
    /\ UNCHANGED <<lambdaFrame, logVars, uuids>>

\* logger.info("Token retrieved successfully")
LogToken ==
    /\ handler.pc = "log_token"
    /\ leveled("info", "INFO", None, {})
    /\ Goto("call_base_api")
    /\ UNCHANGED <<lambdaFrame, stored, exc_info, uuids>>

\* call_base_api(...): a JSON body, or the retries exhausted
CallBaseApi ==
    /\ handler.pc = "call_base_api"
    /\ \/ /\ Goto("log_succeeded")
          /\ UNCHANGED exc_info
       \/ /\ exc_info' = Raised
          /\ Goto("except")
    /\ UNCHANGED <<lambdaFrame, logVars, uuids>>

\* call_base_api(...): a non-JSON or empty body is logged and returned
CallBaseApiNonJson ==
    /\ handler.pc = "call_base_api"
    /\ leveled("warning", "WARNING", None, {})
    /\ Goto("log_succeeded")
    /\ UNCHANGED <<lambdaFrame, stored, exc_info, uuids>>

\* logger.info("Base Api call succeeded"); return {"statusCode": 200, ...}
LogSucceeded ==
    /\ handler.pc = "log_succeeded"
    /\ leveled("info", "INFO", None, {})
    /\ handler' = [handler EXCEPT !.pc = "finally", !.statusCode = 200]
    /\ UNCHANGED <<lambdaFrame, stored, exc_info, uuids>>

\* except Exception as e: logger.exception(...); return {"statusCode": 500, ...}
Except ==
    /\ handler.pc = "except"
    /\ exception(None, {})
    /\ handler' = [handler EXCEPT !.pc = "finally", !.statusCode = 500]
    /\ UNCHANGED <<lambdaFrame, stored, exc_info, uuids>>

\* A finally block that leaves the trace id in place.
Finally_no_clear ==
    /\ handler.pc = "finally"
    /\ handler' = [handler EXCEPT !.pc = "idle", !.trace_id = None]
    /\ exc_info' = NoException
    /\ UNCHANGED <<lambdaFrame, logVars, uuids>>

\* finally: logger.clear_trace_id()
Finally ==
    /\ handler.pc = "finally"
    /\ clear_trace_id
    /\ handler' = [handler EXCEPT !.pc = "idle", !.trace_id = None]
    /\ exc_info' = NoException
    /\ UNCHANGED <<lambdaFrame, uuids>>

NextLambda ==
    \/ SetupTraceId
    \/ LogStarted
    \/ GetSecrets
    \/ LogCredentials
    \/ GetToken
    \/ LogToken
    \/ CallBaseApi
    \/ CallBaseApiNonJson
    \/ LogSucceeded
    \/ Except
    \/ Finally

SpecLambda == InitLambda /\ [][NextLambda]_vars

-----------------------------------------------------------------------------
(* Properties *)

\* the value of the first non-empty signal in priority order, <<>> if none
FirstSignal ==
    LET order == <<"ENVIRONMENT", "ENV", "STAGE", "AWS_LAMBDA_FUNCTION_NAME">>
        set == {i \in 1..4 : environ[order[i]].some /\ environ[order[i]].val # <<>>}
    IN  IF set = {} THEN <<>>
        ELSE environ[order[CHOOSE i \in set : \A j \in set : i <= j]].val

\* C1: every emitted record carries the call's explicit trace_id if one is
\* given, else the value last stored by set_trace_id and not since cleared,
\* else null.  Read in the code's favour: an empty trace_id counts as not
\* given, and a call that passes its own logger_instance field is left out.
C1_RecordTraceId ==
    (last.op \in LogOps /\ record.emitted /\ "logger_instance" \notin last.fields) =>
        record.trace_id =
            (IF last.trace_id # None /\ last.trace_id # "" THEN last.trace_id ELSE stored)

\* C2: a log call, however it ends, leaves current_trace_id as it was just
\* before the call.
C2_CallRestoresTraceId ==
    last.op \in LogOps => current_trace_id = last.before

\* C3: with concurrent log calls on one logger, each emitted record carries
\* the trace_id of its own call, and once no call is in progress
\* current_trace_id is what it was before the first call began.
C3_NoOverridePersists ==
    threads # NoThreads =>
        /\ \A t \in Threads :
              threads[t].emitted # None => threads[t].emitted = thread_trace_id(t)
        /\ (\A t \in Threads : threads[t].pc = "idle") => current_trace_id = stored

\* C4: no log call raises to its caller: whatever the keyword fields, the call
\* returns normally and, when its level is enabled, has emitted its record.
C4_LogCallNeverRaises ==
    last.op \in LogOps =>
        /\ last.outcome = "returned"
        /\ (is_enabled(str_level(last.op)) => record.emitted)

\* C5: during an invocation the logger's current trace id is the id that
\* invocation generated, every record it emits carries that id and never an
\* id of an earlier invocation, and between invocations (after success or
\* failure) current_trace_id is null.
C5_TraceIdPerInvocation ==
    /\ handler.pc = "idle" => current_trace_id = None
    /\ handler.pc # "idle" =>
          /\ handler.trace_id \in uuids
          /\ stored = handler.trace_id
          /\ handler.pc # "finally" => current_trace_id = handler.trace_id
    /\ record.emitted =>
          /\ record.trace_id = handler.trace_id
          /\ record.trace_id \notin (uuids \ {handler.trace_id})
    /\ handler.pc = "try" => ~record.emitted

\* a second invocation has ended on the failure path and cleared the trace id
C5_Witness ==
    /\ handler.pc = "idle"
    /\ handler.invocations = 2
    /\ handler.statusCode = 500
    /\ last.op = "clear_trace_id"
    /\ last.before \in TraceIdPool

\* C6 (as stated): "production" -> production, "STAGE" -> staging,
\* "Hotfixes" -> hotfixes, "unknown-value" -> development, in any letter case.
C6_CanonicalInputs_Original ==
    construct = "ok" =>
        /\ FirstSignal \in {in_production, in_PRODUCTION} => environment = "production"
        /\ FirstSignal \in {in_STAGE, in_stage} => environment = "staging"
        /\ FirstSignal = in_Hotfixes => environment = "hotfixes"
        /\ FirstSignal \in {in_unknown_value, in_Unknown_Value} => environment = "development"

\* C6 (amended): "production" -> production, "Hotfixes" -> hotfixes and
\* "unknown-value" -> development in any letter case; "STAGE" is not a key of
\* the mapping and gives development, the key for staging being "staging".
C6_CanonicalInputs ==
    construct = "ok" =>
        /\ FirstSignal \in {in_production, in_PRODUCTION} => environment = "production"
        /\ FirstSignal \in {in_STAGE, in_stage} => environment = "development"
        /\ FirstSignal = in_Staging_padded => environment = "staging"
        /\ FirstSignal = in_Hotfixes => environment = "hotfixes"
        /\ FirstSignal \in {in_unknown_value, in_Unknown_Value} => environment = "development"

\* "STAGE" is the first non-empty signal (behind an empty one) and was classified
C6_Witness ==
    /\ construct = "ok"
    /\ environ["ENVIRONMENT"] = Some(<<>>)
    /\ environ["ENV"] = Some(in_STAGE)
    /\ environ["STAGE"] = Some(in_production)
    /\ environment = "development"

\* what the classifier is to return for the first non-empty signal v
C7_Expected(v) ==
    LET low == str_lower(v)
        has(sub) == str_contains(sub, low)
    IN  IF v = <<>> THEN "development"
        ELSE IF has(k_lambda)
        THEN CASE has(k_prod) \/ has(k_production) -> "production"
               [] ~has(k_prod) /\ (has(k_staging) \/ has(k_stage)) -> "staging"
               [] ~has(k_prod) /\ ~has(k_staging) /\ ~has(k_stage) /\ has(k_hotfix) -> "hotfixes"
               [] OTHER -> "development"
        ELSE CASE str_strip(low) = k_development -> "development"
               [] str_strip(low) = k_staging -> "staging"
               [] str_strip(low) = k_hotfixes -> "hotfixes"
               [] str_strip(low) = k_production -> "production"
               [] OTHER -> "development"

\* C7: for every assignment of the four signals, detection raises nothing and
\* returns one of the four environments, decided by the first non-empty
\* signal alone: platform-marker rules in the order prod, staging, hotfix,
\* else the exact mapping of the lowercase trimmed value, else development.
C7_DetectEnvironment ==
    construct # "none" =>
        /\ construct = "ok"
        /\ environment \in {"development", "staging", "hotfixes", "production"}
        /\ environment = C7_Expected(FirstSignal)

\* a Lambda name holding both "staging" and "prod" decides, behind two empty
\* signals and ahead of a later one
C7_Witness ==
    /\ construct = "ok"
    /\ environ["ENVIRONMENT"] = NoneStr
    /\ environ["ENV"] = Some(<<>>)
    /\ environ["STAGE"] = Some(in_Lambda_STAGING_Prod)
    /\ environ["AWS_LAMBDA_FUNCTION_NAME"] = Some(in_lambda_stage)
    /\ environment = "production"

\* C8: get_logger succeeds for DEBUG, INFO, WARNING, ERROR, CRITICAL (in any
\* letter case) and fails for every other level name.
C8_LevelFailFast ==
    level_arg.some =>
        (construct = "ok" <=>
            str_upper(level_arg.val) \in {lv_DEBUG, lv_INFO, lv_WARNING, lv_ERROR, lv_CRITICAL})

\* C9: a record emitted by exception() inside a handler names as root cause
\* the innermost exception of the __cause__ chain: the n-th cause for a chain
\* of n links, the active exception itself when n = 0.
C9_RootCause ==
    (last.op = "exception" /\ record.emitted /\ exc_info.chain # <<>>) =>
        /\ record.exc
        /\ record.fields.exception_type = exc_info.chain[1].type
        /\ record.fields.root_cause_type = exc_info.chain[Len(exc_info.chain)].type
        /\ record.fields.root_cause_message = exc_info.chain[Len(exc_info.chain)].message

\* exception() has logged a chain of two links whose innermost exception
\* differs from the active one and from the one in between
C9_Witness ==
    /\ last.op = "exception"
    /\ record.emitted
    /\ Len(exc_info.chain) = 3
    /\ exc_info.chain[3].type # exc_info.chain[1].type
    /\ exc_info.chain[3].message # exc_info.chain[2].message
    /\ record.fields.root_cause_type = exc_info.chain[3].type

\* the lines of text a traceback holds
TextLines(lines) == {i \in 1..Len(lines) : lines[i] # BlankLine}

\* C10: the traceback of a record emitted by exception() with an active
\* exception holds at most 10 lines of text, the last lines of the formatted
\* stack trace.
C10_TracebackAtMostTenLines ==
    (last.op = "exception" /\ record.emitted /\ exc_info.chain # <<>>) =>
        LET tb == record.fields.traceback
            full == strip_lines(join_lines(format_exception(exc_info, 1)))
        IN  /\ Cardinality(TextLines(tb)) <= TracebackLimit
            /\ Len(tb) <= Len(full)
            /\ tb = SubSeq(full, Len(full) - Len(tb) + 1, Len(full))

=============================================================================
